---- MODULE Spec2Model ----
(***************************************************************************)
(* File index of ngogaraul/FILE-MANAGEMENT-SYS: a red-black tree (rbt.py)  *)
(* and a B+ tree (bpt.py) that the command loop (CLI.py) feeds with the    *)
(* same inserts and persists with pickle.                                  *)
(*                                                                         *)
(* Objects live in heaps (functions from object id to the object's         *)
(* attributes).  Python object identity is not observable apart from `is`, *)
(* so ids are chosen by a naming convention that makes every newly created *)
(* object's id distinct from the ids in use: an RBNode is named after its  *)
(* key, a B+ node after its level and the first key of its range.          *)
(***************************************************************************)
EXTENDS Integers, Sequences, FiniteSets, TLC

\* ---------------------------------------------------------------- bounds
MaxKey == 5            \* string keys are 1..MaxKey, in lexicographic order
MaxVal == 1            \* path values are 0..MaxVal
RecursionLimit == 6    \* interpreter recursion limit, scaled to the model's trees
MaxText == 4           \* texts given to the codec have at most MaxText characters
MaxChar == 3           \* over the alphabet 1..MaxChar
MaxDeepKey == 10       \* keys of the runs that only insert, into one index, are 1..MaxDeepKey
Orders == {3, 4}       \* B+ tree orders explored (CLI.py uses 4)

\* --------------------------------------------------------------- domains
None == -1             \* Python None (null reference, missing result)
Raise == -2            \* marks that the evaluation raised an exception
BadKey == 0            \* a key that is not a string: `<`, `>` against a string raise TypeError
EmptyPath == 0         \* the empty string '' as a value
Keys == 1..MaxKey
AllKeys == {BadKey} \cup Keys
Vals == EmptyPath..MaxVal

\* `a < b` / `a > b` raise TypeError when exactly one side is not a string
Unorderable(a, b) == (a = BadKey) # (b = BadKey)

Max(a, b) == IF a >= b THEN a ELSE b

InsertAt_append(s, i, x) == Append(s, x)

InsertAt(s, i, x) == SubSeq(s, 1, i) \o <<x>> \o SubSeq(s, i + 1, Len(s))   \* list.insert(i, x), i 0-based

Info(m) == <<"INFO", m>>
Error(m) == <<"ERROR", m>>

\* ======================================================== rbt.py
NULL_LEAF == 0                         \* id of the shared terminal marker
RBId(key) == key + 1                   \* id of the RBNode created for key

RBNode_black(key, value) ==
  [key |-> key, value |-> value, color |-> "black", parent |-> None, left |-> None, right |-> None]

RBNode(key, value) ==
  [key |-> key, value |-> value, color |-> "red", parent |-> None, left |-> None, right |-> None]

RedBlackTree ==
  [root |-> NULL_LEAF,
   nodes |-> (NULL_LEAF :> [RBNode(None, None) EXCEPT !.color = "black"])]

\* RedBlackTree.insert, lines 25-35: the descent.  Comparing the key with a
\* stored key of another type raises before anything is written.
RECURSIVE RBDescend(_, _, _, _)
RBDescend(n, key, cur, parent) ==
  IF cur = NULL_LEAF THEN [kind |-> "attach", at |-> parent]
  ELSE IF Unorderable(key, n[cur].key) THEN [kind |-> "raise", at |-> cur]
  ELSE IF key < n[cur].key THEN RBDescend(n, key, n[cur].left, cur)
  ELSE IF key > n[cur].key THEN RBDescend(n, key, n[cur].right, cur)
  ELSE [kind |-> "update", at |-> cur]

\* the parent of y.left is set even when y.left is the terminal marker
_rotate_left_unguarded(t, x) ==
  LET y  == t.nodes[x].right
      n1 == [t.nodes EXCEPT ![x].right = t.nodes[y].left]
      n2 == [n1 EXCEPT ![n1[y].left].parent = x]
      n3 == [n2 EXCEPT ![y].parent = n2[x].parent]
      xp == n3[x].parent
      n4 == IF xp = None THEN n3
            ELSE IF x = n3[xp].left THEN [n3 EXCEPT ![xp].left = y]
            ELSE [n3 EXCEPT ![xp].right = y]
      n5 == [n4 EXCEPT ![y].left = x]
  IN  [root |-> IF xp = None THEN y ELSE t.root,
       nodes |-> [n5 EXCEPT ![x].parent = y]]

_rotate_left(t, x) ==
  LET y  == t.nodes[x].right
      n1 == [t.nodes EXCEPT ![x].right = t.nodes[y].left]
      n2 == IF n1[y].left # NULL_LEAF THEN [n1 EXCEPT ![n1[y].left].parent = x] ELSE n1
      n3 == [n2 EXCEPT ![y].parent = n2[x].parent]
      xp == n3[x].parent
      n4 == IF xp = None THEN n3
            ELSE IF x = n3[xp].left THEN [n3 EXCEPT ![xp].left = y]
            ELSE [n3 EXCEPT ![xp].right = y]
      n5 == [n4 EXCEPT ![y].left = x]
  IN  [root |-> IF xp = None THEN y ELSE t.root,
       nodes |-> [n5 EXCEPT ![x].parent = y]]

_rotate_right(t, x) ==
  LET y  == t.nodes[x].left
      n1 == [t.nodes EXCEPT ![x].left = t.nodes[y].right]
      n2 == IF n1[y].right # NULL_LEAF THEN [n1 EXCEPT ![n1[y].right].parent = x] ELSE n1
      n3 == [n2 EXCEPT ![y].parent = n2[x].parent]
      xp == n3[x].parent
      n4 == IF xp = None THEN n3
            ELSE IF x = n3[xp].right THEN [n3 EXCEPT ![xp].right = y]
            ELSE [n3 EXCEPT ![xp].left = y]
      n5 == [n4 EXCEPT ![y].right = x]
  IN  [root |-> IF xp = None THEN y ELSE t.root,
       nodes |-> [n5 EXCEPT ![x].parent = y]]

\* `while k.parent and k.parent.color == 'red'`
FixGuard(t, k) ==
  t.nodes[k].parent # None /\ t.nodes[t.nodes[k].parent].color = "red"

\* the recolouring branch leaves k where it is
FixPass_stay(t, k) ==
  LET n    == t.nodes
      kp   == n[k].parent
      gp   == n[kp].parent
      left == (kp = n[gp].left)
      uncle == IF left THEN n[gp].right ELSE n[gp].left
  IN  IF uncle # None /\ n[uncle].color = "red"
      THEN [t |-> [t EXCEPT !.nodes[kp].color = "black", !.nodes[uncle].color = "black",
                            !.nodes[gp].color = "red"],
            k |-> k, kind |-> "recolour", rotations |-> 0, first |-> t]
      ELSE LET inner == (k = IF left THEN n[kp].right ELSE n[kp].left)
               k1 == IF inner THEN kp ELSE k
               t1 == IF inner THEN (IF left THEN _rotate_left(t, k1) ELSE _rotate_right(t, k1)) ELSE t
               t2 == [t1 EXCEPT !.nodes[t1.nodes[k1].parent].color = "black"]
               t3 == [t2 EXCEPT !.nodes[gp].color = "red"]
           IN  [t |-> IF left THEN _rotate_right(t3, gp) ELSE _rotate_left(t3, gp),
                k |-> k1, kind |-> "rotate", rotations |-> IF inner THEN 2 ELSE 1, first |-> t1]

\* one pass of the while loop of _fix_insert: the tree and k after the pass,
\* the branch taken, the number of rotations carried out, and the tree as the
\* first of two rotations leaves it (as it was, if there is none)
FixPass(t, k) ==
  LET n    == t.nodes
      kp   == n[k].parent
      gp   == n[kp].parent
      left == (kp = n[gp].left)
      uncle == IF left THEN n[gp].right ELSE n[gp].left
  IN  IF uncle # None /\ n[uncle].color = "red"
      THEN [t |-> [t EXCEPT !.nodes[kp].color = "black", !.nodes[uncle].color = "black",
                            !.nodes[gp].color = "red"],
            k |-> gp, kind |-> "recolour", rotations |-> 0, first |-> t]
      ELSE LET inner == (k = IF left THEN n[kp].right ELSE n[kp].left)
               k1 == IF inner THEN kp ELSE k
               t1 == IF inner THEN (IF left THEN _rotate_left(t, k1) ELSE _rotate_right(t, k1)) ELSE t
               t2 == [t1 EXCEPT !.nodes[t1.nodes[k1].parent].color = "black"]
               t3 == [t2 EXCEPT !.nodes[gp].color = "red"]
           IN  [t |-> IF left THEN _rotate_right(t3, gp) ELSE _rotate_left(t3, gp),
                k |-> k1, kind |-> "rotate", rotations |-> IF inner THEN 2 ELSE 1, first |-> t1]

\* _fix_insert: the passes of the loop, then the root is blackened
RECURSIVE _fix_insert(_, _)
_fix_insert(t, k) ==
  IF FixGuard(t, k)
  THEN LET p == FixPass(t, k) IN _fix_insert(p.t, p.k)
  ELSE [t EXCEPT !.nodes[t.root].color = "black"]

\* the passes of the loop of _fix_insert(k) in order: the tree and k each pass
\* starts from, and FixPass of them
RECURSIVE FixTrace(_, _)
FixTrace(t, k) ==
  IF FixGuard(t, k)
  THEN LET p == FixPass(t, k) IN <<[t |-> t, k |-> k, pass |-> p]>> \o FixTrace(p.t, p.k)
  ELSE <<>>

\* lines 36-42 of insert: the new node is hung under the parent the descent ended at
RBAttach(t, key, value, parent) ==
  LET node == RBId(key)
      new  == [RBNode(key, value) EXCEPT !.left = NULL_LEAF, !.right = NULL_LEAF,
                                         !.parent = parent]
      n1   == (node :> new) @@ t.nodes
  IN  IF parent = None THEN [root |-> node, nodes |-> n1]
      ELSE IF key < n1[parent].key
      THEN [root |-> t.root, nodes |-> [n1 EXCEPT ![parent].left = node]]
      ELSE [root |-> t.root, nodes |-> [n1 EXCEPT ![parent].right = node]]

\* RedBlackTree.insert.  Result: the tree after the call, the event logged and
\* the number of RBNode objects constructed (line 22 runs before the descent).
RBInsert(t, key, value) ==
  LET node == RBId(key)
      d    == RBDescend(t.nodes, key, t.root, None)
  IN  IF d.kind = "raise"
      THEN [t |-> t, log |-> Error("RB-Tree insert error"), allocs |-> 1]
      ELSE IF d.kind = "update"
      THEN [t |-> [t EXCEPT !.nodes[d.at].value = value],
            log |-> Info("RB-Tree: updated"), allocs |-> 1]
      ELSE [t |-> _fix_insert(RBAttach(t, key, value, d.at), node),
            log |-> Info("RB-Tree: inserted"), allocs |-> 1]

RECURSIVE RBSearchFrom_silent(_, _, _)
RBSearchFrom_silent(n, cur, key) ==
  IF cur = NULL_LEAF THEN [ret |-> None, log |-> Info("RB-Tree: not found")]
  ELSE IF key = n[cur].key THEN [ret |-> n[cur].value, log |-> Info("RB-Tree: found")]
  ELSE IF Unorderable(key, n[cur].key) THEN [ret |-> None, log |-> Info("RB-Tree: not found")]
  ELSE RBSearchFrom_silent(n, IF key < n[cur].key THEN n[cur].left ELSE n[cur].right, key)

\* RedBlackTree.search: `==` never raises, `<` does on a key of another type
RECURSIVE RBSearchFrom(_, _, _)
RBSearchFrom(n, cur, key) ==
  IF cur = NULL_LEAF THEN [ret |-> None, log |-> Info("RB-Tree: not found")]
  ELSE IF key = n[cur].key THEN [ret |-> n[cur].value, log |-> Info("RB-Tree: found")]
  ELSE IF Unorderable(key, n[cur].key) THEN [ret |-> None, log |-> Error("RB-Tree search error")]
  ELSE RBSearchFrom(n, IF key < n[cur].key THEN n[cur].left ELSE n[cur].right, key)

RBSearch(t, key) == RBSearchFrom(t.nodes, t.root, key)

\* ======================================================== bpt.py
\* id of a B+ node: its level (0 for leaves) and the first key of its key
\* range at creation (None for the leftmost node of a level)
BPId(level, low) == level * (Max(MaxKey, MaxDeepKey) + 2) + low + 1

BPlusLeaf ==
  [leaf |-> TRUE, keys |-> <<>>, parent |-> None, values |-> <<>>, next |-> None, children |-> <<>>]

BPlusInternal ==
  [leaf |-> FALSE, keys |-> <<>>, parent |-> None, values |-> <<>>, next |-> None, children |-> <<>>]

BPlusTree(order) ==
  [order |-> order, root |-> BPId(0, None), nodes |-> (BPId(0, None) :> BPlusLeaf)]

Range(s) == {s[i] : i \in DOMAIN s}

RECURSIVE Level(_, _)
Level(n, node) == IF n[node].leaf THEN 0 ELSE 1 + Level(n, n[node].children[1])

\* a node overflows when it holds more than order - 1 keys (lines 78, 142)
Overflow(keys, order) == Len(keys) > order - 1

LeafMid_ceil(order) == (order + 2) \div 2

LeafMid(order) == (order + 1) \div 2          \* _split_leaf, line 115

InternalMid_high(keys) == Len(keys) \div 2 + 1

InternalMid(keys) == Len(keys) \div 2         \* _split_internal, line 146

RECURSIVE ChildFor_le(_, _, _)
ChildFor_le(nd, key, i) ==
  IF i >= Len(nd.keys) THEN nd.children[Len(nd.children)]
  ELSE IF Unorderable(key, nd.keys[i + 1]) THEN Raise
  ELSE IF key <= nd.keys[i + 1] THEN nd.children[i + 1]
  ELSE ChildFor_le(nd, key, i + 1)

\* the for loop of _find_leaf over node.keys, from (0-based) index i
RECURSIVE ChildFor(_, _, _)
ChildFor(nd, key, i) ==
  IF i >= Len(nd.keys) THEN nd.children[Len(nd.children)]
  ELSE IF Unorderable(key, nd.keys[i + 1]) THEN Raise
  ELSE IF key < nd.keys[i + 1] THEN nd.children[i + 1]
  ELSE ChildFor(nd, key, i + 1)

RECURSIVE _find_leaf(_, _, _)
_find_leaf(n, node, key) ==
  IF n[node].leaf THEN node
  ELSE LET c == ChildFor(n[node], key, 0)
       IN  IF c = Raise THEN Raise ELSE _find_leaf(n, c, key)

\* `while i < len(keys) and key > keys[i]: i += 1` (insert and _insert_internal)
RECURSIVE Position(_, _, _)
Position(keys, key, i) ==
  IF i >= Len(keys) THEN i
  ELSE IF Unorderable(key, keys[i + 1]) THEN Raise
  ELSE IF key > keys[i + 1] THEN Position(keys, key, i + 1)
  ELSE i

RECURSIVE ScanLeaf_ge(_, _, _)
ScanLeaf_ge(lf, key, i) ==
  IF i >= Len(lf.keys) THEN [ret |-> None, log |-> Info("B+ Tree: not found")]
  ELSE IF lf.keys[i + 1] >= key THEN [ret |-> lf.values[i + 1], log |-> Info("B+ Tree: found")]
  ELSE ScanLeaf_ge(lf, key, i + 1)

\* the for loop of search over leaf.keys
RECURSIVE ScanLeaf(_, _, _)
ScanLeaf(lf, key, i) ==
  IF i >= Len(lf.keys) THEN [ret |-> None, log |-> Info("B+ Tree: not found")]
  ELSE IF lf.keys[i + 1] = key THEN [ret |-> lf.values[i + 1], log |-> Info("B+ Tree: found")]
  ELSE ScanLeaf(lf, key, i + 1)

BPSearch(t, key) ==
  LET leaf == _find_leaf(t.nodes, t.root, key)
  IN  IF leaf = Raise THEN [ret |-> None, log |-> Error("B+ Tree search error")]
      ELSE ScanLeaf(t.nodes[leaf], key, 0)

\* The helpers below return the tree as the call leaves it, whether the call
\* raised, and the number of node objects it constructed.
RECURSIVE _insert_internal(_, _, _, _)
RECURSIVE _split_internal(_, _)

\* the children that move to the new node keep their old parent link
_split_internal_staleParent(t, node) ==
  LET n         == t.nodes
      mid       == InternalMid(n[node].keys)
      split_key == n[node].keys[mid + 1]
      new_node  == BPId(Level(n, node), split_key)
      newrec    == [BPlusInternal EXCEPT
                      !.keys = SubSeq(n[node].keys, mid + 2, Len(n[node].keys)),
                      !.children = SubSeq(n[node].children, mid + 2, Len(n[node].children))]
      n1        == (new_node :> newrec) @@ n
      n3        == [n1 EXCEPT ![node].keys = SubSeq(n[node].keys, 1, mid),
                              ![node].children = SubSeq(n[node].children, 1, mid + 1)]
  IN  IF n3[node].parent = None
      THEN LET new_root == BPId(Level(n, node) + 1, None)
               rootrec  == [BPlusInternal EXCEPT !.keys = <<split_key>>,
                                                 !.children = <<node, new_node>>]
               n4       == (new_root :> rootrec) @@ n3
           IN  [t |-> [t EXCEPT !.root = new_root,
                                !.nodes = [n4 EXCEPT ![node].parent = new_root,
                                                     ![new_node].parent = new_root]],
                raised |-> FALSE, allocs |-> 2]
      ELSE LET r == _insert_internal([t EXCEPT !.nodes = n3], n3[node].parent, split_key, new_node)
           IN  [r EXCEPT !.allocs = r.allocs + 1]

_split_internal(t, node) ==
  LET n         == t.nodes
      mid       == InternalMid(n[node].keys)
      split_key == n[node].keys[mid + 1]
      new_node  == BPId(Level(n, node), split_key)
      newrec    == [BPlusInternal EXCEPT
                      !.keys = SubSeq(n[node].keys, mid + 2, Len(n[node].keys)),
                      !.children = SubSeq(n[node].children, mid + 2, Len(n[node].children))]
      n1        == (new_node :> newrec) @@ n
      n2        == [id \in DOMAIN n1 |->
                      IF id \in Range(newrec.children) THEN [n1[id] EXCEPT !.parent = new_node]
                      ELSE n1[id]]
      n3        == [n2 EXCEPT ![node].keys = SubSeq(n[node].keys, 1, mid),
                              ![node].children = SubSeq(n[node].children, 1, mid + 1)]
  IN  IF n3[node].parent = None
      THEN LET new_root == BPId(Level(n, node) + 1, None)
               rootrec  == [BPlusInternal EXCEPT !.keys = <<split_key>>,
                                                 !.children = <<node, new_node>>]
               n4       == (new_root :> rootrec) @@ n3
           IN  [t |-> [t EXCEPT !.root = new_root,
                                !.nodes = [n4 EXCEPT ![node].parent = new_root,
                                                     ![new_node].parent = new_root]],
                raised |-> FALSE, allocs |-> 2]
      ELSE LET r == _insert_internal([t EXCEPT !.nodes = n3], n3[node].parent, split_key, new_node)
           IN  [r EXCEPT !.allocs = r.allocs + 1]

\* the separator and the child go into the root, whatever the parent
_insert_internal_intoRoot(t, parent, key, child) ==
  LET n == t.nodes
      i == Position(n[t.root].keys, key, 0)
  IN  IF i = Raise THEN [t |-> t, raised |-> TRUE, allocs |-> 0]
      ELSE LET n1 == [n EXCEPT ![t.root].keys = InsertAt(@, i, key),
                               ![t.root].children = InsertAt(@, i + 1, child),
                               ![child].parent = t.root]
               t1 == [t EXCEPT !.nodes = n1]
           IN  IF Overflow(n1[t.root].keys, t.order)
               THEN _split_internal(t1, t.root)
               ELSE [t |-> t1, raised |-> FALSE, allocs |-> 0]

\* the child goes in before its separator's position instead of after it
_insert_internal_childBefore(t, parent, key, child) ==
  LET n == t.nodes
      i == Position(n[parent].keys, key, 0)
  IN  IF i = Raise THEN [t |-> t, raised |-> TRUE, allocs |-> 0]
      ELSE LET n1 == [n EXCEPT ![parent].keys = InsertAt(@, i, key),
                               ![parent].children = InsertAt(@, i, child),
                               ![child].parent = parent]
               t1 == [t EXCEPT !.nodes = n1]
           IN  IF Overflow(n1[parent].keys, t.order)
               THEN _split_internal(t1, parent)
               ELSE [t |-> t1, raised |-> FALSE, allocs |-> 0]

\* the child's parent link is left as it was (line 141 left out)
_insert_internal_noBackLink(t, parent, key, child) ==
  LET n == t.nodes
      i == Position(n[parent].keys, key, 0)
  IN  IF i = Raise THEN [t |-> t, raised |-> TRUE, allocs |-> 0]
      ELSE LET n1 == [n EXCEPT ![parent].keys = InsertAt(@, i, key),
                               ![parent].children = InsertAt(@, i + 1, child)]
               t1 == [t EXCEPT !.nodes = n1]
           IN  IF Overflow(n1[parent].keys, t.order)
               THEN _split_internal(t1, parent)
               ELSE [t |-> t1, raised |-> FALSE, allocs |-> 0]

_insert_internal(t, parent, key, child) ==
  LET n == t.nodes
      i == Position(n[parent].keys, key, 0)
  IN  IF i = Raise THEN [t |-> t, raised |-> TRUE, allocs |-> 0]
      ELSE LET n1 == [n EXCEPT ![parent].keys = InsertAt(@, i, key),
                               ![parent].children = InsertAt(@, i + 1, child),
                               ![child].parent = parent]
               t1 == [t EXCEPT !.nodes = n1]
           IN  IF Overflow(n1[parent].keys, t.order)
               THEN _split_internal(t1, parent)
               ELSE [t |-> t1, raised |-> FALSE, allocs |-> 0]

\* the original leaf keeps its old next link
_split_leaf_unlinked(t, leaf) ==
  LET n        == t.nodes
      mid      == LeafMid(t.order)
      newrec   == [BPlusLeaf EXCEPT
                     !.keys = SubSeq(n[leaf].keys, mid + 1, Len(n[leaf].keys)),
                     !.values = SubSeq(n[leaf].values, mid + 1, Len(n[leaf].values)),
                     !.next = n[leaf].next,
                     !.parent = n[leaf].parent]
      new_leaf == BPId(0, newrec.keys[1])
      n1       == [((new_leaf :> newrec) @@ n) EXCEPT
                     ![leaf].keys = SubSeq(n[leaf].keys, 1, mid),
                     ![leaf].values = SubSeq(n[leaf].values, 1, mid)]
  IN  IF n1[leaf].parent = None
      THEN LET new_root == BPId(1, None)
               rootrec  == [BPlusInternal EXCEPT !.keys = <<newrec.keys[1]>>,
                                                 !.children = <<leaf, new_leaf>>]
               n2       == (new_root :> rootrec) @@ n1
           IN  [t |-> [t EXCEPT !.root = new_root,
                                !.nodes = [n2 EXCEPT ![leaf].parent = new_root,
                                                     ![new_leaf].parent = new_root]],
                raised |-> FALSE, allocs |-> 2]
      ELSE LET r == _insert_internal([t EXCEPT !.nodes = n1], n1[leaf].parent,
                                     newrec.keys[1], new_leaf)
           IN  [r EXCEPT !.allocs = r.allocs + 1]

_split_leaf(t, leaf) ==
  LET n        == t.nodes
      mid      == LeafMid(t.order)
      newrec   == [BPlusLeaf EXCEPT
                     !.keys = SubSeq(n[leaf].keys, mid + 1, Len(n[leaf].keys)),
                     !.values = SubSeq(n[leaf].values, mid + 1, Len(n[leaf].values)),
                     !.next = n[leaf].next,
                     !.parent = n[leaf].parent]
      new_leaf == BPId(0, newrec.keys[1])
      n1       == [((new_leaf :> newrec) @@ n) EXCEPT
                     ![leaf].keys = SubSeq(n[leaf].keys, 1, mid),
                     ![leaf].values = SubSeq(n[leaf].values, 1, mid),
                     ![leaf].next = new_leaf]
  IN  IF n1[leaf].parent = None
      THEN LET new_root == BPId(1, None)
               rootrec  == [BPlusInternal EXCEPT !.keys = <<newrec.keys[1]>>,
                                                 !.children = <<leaf, new_leaf>>]
               n2       == (new_root :> rootrec) @@ n1
           IN  [t |-> [t EXCEPT !.root = new_root,
                                !.nodes = [n2 EXCEPT ![leaf].parent = new_root,
                                                     ![new_leaf].parent = new_root]],
                raised |-> FALSE, allocs |-> 2]
      ELSE LET r == _insert_internal([t EXCEPT !.nodes = n1], n1[leaf].parent,
                                     newrec.keys[1], new_leaf)
           IN  [r EXCEPT !.allocs = r.allocs + 1]

\* the key is appended to the leaf before it is compared with the leaf's keys
BPInsert_appendFirst(t, key, value) ==
  LET leaf == _find_leaf(t.nodes, t.root, key)
      i    == IF leaf = Raise THEN Raise ELSE Position(t.nodes[leaf].keys, key, 0)
  IN  IF i = Raise
      THEN [t |-> IF leaf = Raise THEN t ELSE [t EXCEPT !.nodes[leaf].keys = Append(@, key)],
            log |-> Error("B+ Tree insert error"), allocs |-> 0]
      ELSE IF i < Len(t.nodes[leaf].keys) /\ t.nodes[leaf].keys[i + 1] = key
      THEN [t |-> [t EXCEPT !.nodes[leaf].values[i + 1] = value],
            log |-> Info("B+ Tree: updated"), allocs |-> 0]
      ELSE LET t1 == [t EXCEPT !.nodes[leaf].keys = InsertAt(@, i, key),
                               !.nodes[leaf].values = InsertAt(@, i, value)]
               r  == IF Overflow(t1.nodes[leaf].keys, t.order)
                     THEN _split_leaf(t1, leaf)
                     ELSE [t |-> t1, raised |-> FALSE, allocs |-> 0]
           IN  [t |-> r.t,
                log |-> IF r.raised THEN Error("B+ Tree insert error")
                        ELSE Info("B+ Tree: inserted"),
                allocs |-> r.allocs]

\* BPlusTree.insert: the tree after the call, the event logged, the nodes constructed
BPInsert(t, key, value) ==
  LET leaf == _find_leaf(t.nodes, t.root, key)
      i    == IF leaf = Raise THEN Raise ELSE Position(t.nodes[leaf].keys, key, 0)
  IN  IF i = Raise
      THEN [t |-> t, log |-> Error("B+ Tree insert error"), allocs |-> 0]
      ELSE IF i < Len(t.nodes[leaf].keys) /\ t.nodes[leaf].keys[i + 1] = key
      THEN [t |-> [t EXCEPT !.nodes[leaf].values[i + 1] = value],
            log |-> Info("B+ Tree: updated"), allocs |-> 0]
      ELSE LET t1 == [t EXCEPT !.nodes[leaf].keys = InsertAt(@, i, key),
                               !.nodes[leaf].values = InsertAt(@, i, value)]
               r  == IF Overflow(t1.nodes[leaf].keys, t.order)
                     THEN _split_leaf(t1, leaf)
                     ELSE [t |-> t1, raised |-> FALSE, allocs |-> 0]
           IN  [t |-> r.t,
                log |-> IF r.raised THEN Error("B+ Tree insert error")
                        ELSE Info("B+ Tree: inserted"),
                allocs |-> r.allocs]

\* list_all: descend to the leftmost leaf, then walk the leaf chain
RECURSIVE LeftmostLeaf(_, _)
LeftmostLeaf(n, node) == IF n[node].leaf THEN node ELSE LeftmostLeaf(n, n[node].children[1])

Min(a, b) == IF a <= b THEN a ELSE b

Zip(ks, vs) == [i \in 1..Min(Len(ks), Len(vs)) |-> <<ks[i], vs[i]>>]

RECURSIVE Chain(_, _)
Chain(n, node) ==
  IF node = None THEN <<>> ELSE Zip(n[node].keys, n[node].values) \o Chain(n, n[node].next)

list_all(t) ==
  LET entries == Chain(t.nodes, LeftmostLeaf(t.nodes, t.root))
  IN  [ret |-> entries, log |-> Info("B+ Tree: listed")]

\* ======================================================== CLI.py, pickle
\* pickle.dump walks the object graph depth first, in attribute order, and
\* memoises every object when it is first met: a later reference to it is
\* written as its memo index.  Every nested object is one more level of
\* recursion in the pickler.
RBRefs(n) == [id \in DOMAIN n |-> <<n[id].parent, n[id].left, n[id].right>>]

BPRefs(n) == [id \in DOMAIN n |->
                IF n[id].leaf THEN <<n[id].parent, n[id].next>>
                ELSE <<n[id].parent>> \o n[id].children]

RECURSIVE Save(_, _, _, _)
RECURSIVE SaveAll(_, _, _, _, _)

Save(refs, id, depth, acc) ==
  IF id = None \/ id \in Range(acc.memo) THEN acc
  ELSE SaveAll(refs, refs[id], 1, depth + 1,
               [memo |-> Append(acc.memo, id), depth |-> Max(acc.depth, depth)])

SaveAll(refs, ids, i, depth, acc) ==
  IF i > Len(ids) THEN acc
  ELSE SaveAll(refs, ids, i + 1, depth, Save(refs, ids[i], depth, acc))

IndexOf(memo, id) == IF id = None THEN None ELSE CHOOSE i \in DOMAIN memo : memo[i] = id

\* pickle.dumps((rbt, bpt)): the two trees (recursion level 1), then their nodes
Pickle(r, b) ==
  LET ra == SaveAll(RBRefs(r.nodes), <<NULL_LEAF, r.root>>, 1, 2, [memo |-> <<>>, depth |-> 1])
      ba == Save(BPRefs(b.nodes), b.root, 2, [memo |-> <<>>, depth |-> 1])
      RI(id) == IndexOf(ra.memo, id)
      BI(id) == IndexOf(ba.memo, id)
  IN  [depth |-> Max(ra.depth, ba.depth),
       data  |-> [kind |-> "pickle",
                  rb |-> [root |-> RI(r.root),
                          objs |-> [i \in DOMAIN ra.memo |->
                                      [r.nodes[ra.memo[i]] EXCEPT !.parent = RI(@), !.left = RI(@),
                                                                  !.right = RI(@)]]],
                  bp |-> [order |-> b.order, root |-> BI(b.root),
                          objs |-> [i \in DOMAIN ba.memo |->
                                      [b.nodes[ba.memo[i]] EXCEPT
                                         !.parent = BI(@), !.next = BI(@),
                                         !.children = [j \in DOMAIN @ |-> BI(@[j])]]]]]]

NoFile == [kind |-> "absent"]
Incomplete == [kind |-> "incomplete"]

\* pickle.load creates one new object per pickled object; the new objects are
\* named by the convention of the module head
RECURSIVE CanonIds(_, _, _, _)
CanonIds(objs, i, level, low) ==
  {<<i, BPId(level, low)>>} \cup
  UNION {CanonIds(objs, objs[i].children[j], level - 1,
                  IF j = 1 THEN low ELSE objs[i].keys[j - 1]) : j \in DOMAIN objs[i].children}

RECURSIVE PLevel(_, _)
PLevel(objs, i) == IF objs[i].leaf THEN 0 ELSE 1 + PLevel(objs, objs[i].children[1])

UnpickleRB(p) ==
  LET New(i) == IF i = None THEN None ELSE RBId(p.objs[i].key)
  IN  [root |-> New(p.root),
       nodes |-> [id \in {New(i) : i \in DOMAIN p.objs} |->
                    LET i == CHOOSE j \in DOMAIN p.objs : New(j) = id
                    IN  [p.objs[i] EXCEPT !.parent = New(@), !.left = New(@), !.right = New(@)]]]

UnpickleBP(p) ==
  LET map    == CanonIds(p.objs, p.root, PLevel(p.objs, p.root), None)
      New(i) == IF i = None THEN None ELSE (CHOOSE m \in map : m[1] = i)[2]
  IN  [order |-> p.order,
       root |-> New(p.root),
       nodes |-> [id \in {m[2] : m \in map} |->
                    LET i == (CHOOSE m \in map : m[2] = id)[1]
                    IN  [p.objs[i] EXCEPT !.parent = New(@), !.next = New(@),
                                          !.children = [j \in DOMAIN @ |-> New(@[j])]]]]

\* save_index: open(INDEX_FILE, 'wb') empties the file, then pickle.dump writes
\* it; when the pickler exceeds the recursion limit the RecursionError is caught
\* and logged (lines 39-40) and the file is left incomplete
save_index(r, b) ==
  LET p == Pickle(r, b)
  IN  IF p.depth > RecursionLimit
      THEN [file |-> Incomplete, log |-> Error("Failed to save index")]
      ELSE [file |-> p.data, log |-> Info("Saved index")]

\* load_index: the order of a fresh B+ tree is 4 in CLI.py; the model takes
\* the order the run was started with
load_index(f, order) ==
  IF f.kind = "pickle"
  THEN [rbt |-> UnpickleRB(f.rb), bpt |-> UnpickleBP(f.bp), fresh |-> FALSE,
        log |-> <<Info("Loaded index")>>]
  ELSE [rbt |-> RedBlackTree, bpt |-> BPlusTree(order), fresh |-> TRUE,
        log |-> IF f.kind = "absent" THEN <<>> ELSE <<Error("Failed to load index")>>]

\* ======================================================== huffman.py
Chars == 1..MaxChar
Texts == UNION {[1..n -> Chars] : n \in 0..MaxText}

\* a reference to a Node is <<>> (None) or <<node>>
Node(char, freq) == [char |-> char, freq |-> freq, left |-> <<>>, right |-> <<>>]

Lt(a, b) == a.freq < b.freq                                    \* Node.__lt__

\* the dict char -> count as the sequence of its items, in insertion order
RECURSIVE FreqLoop(_, _, _)
FreqLoop(text, i, freq) ==
  IF i > Len(text) THEN freq
  ELSE LET ch == text[i]
       IN  IF \E j \in DOMAIN freq : freq[j][1] = ch
           THEN LET j == CHOOSE j \in DOMAIN freq : freq[j][1] = ch
                IN  FreqLoop(text, i + 1, [freq EXCEPT ![j] = <<ch, freq[j][2] + 1>>])
           ELSE FreqLoop(text, i + 1, Append(freq, <<ch, 1>>))

build_frequency_table(text) == FreqLoop(text, 1, <<>>)

\* heapq on a list; positions are 0-based as in Python
RECURSIVE _siftdown(_, _, _, _)
_siftdown(heap, startpos, pos, newitem) ==
  LET parentpos == (pos - 1) \div 2
  IN  IF pos > startpos /\ Lt(newitem, heap[parentpos + 1])
      THEN _siftdown([heap EXCEPT ![pos + 1] = heap[parentpos + 1]], startpos, parentpos, newitem)
      ELSE [heap EXCEPT ![pos + 1] = newitem]

\* the while loop of heapq._siftup: the smaller child moves up until a leaf is hit
RECURSIVE SiftUpLoop(_, _)
SiftUpLoop(heap, pos) ==
  LET childpos == 2 * pos + 1
      rightpos == childpos + 1
      c        == IF rightpos < Len(heap) /\ ~Lt(heap[childpos + 1], heap[rightpos + 1])
                  THEN rightpos ELSE childpos
  IN  IF childpos < Len(heap)
      THEN SiftUpLoop([heap EXCEPT ![pos + 1] = heap[c + 1]], c)
      ELSE [heap |-> heap, pos |-> pos]

_siftup(heap, pos) ==
  LET r == SiftUpLoop(heap, pos) IN _siftdown(r.heap, pos, r.pos, heap[pos + 1])

RECURSIVE HeapifyFrom(_, _)
HeapifyFrom(x, i) == IF i < 0 THEN x ELSE HeapifyFrom(_siftup(x, i), i - 1)

heapify(x) == HeapifyFrom(x, Len(x) \div 2 - 1)

heappop(heap) ==
  LET lastelt == heap[Len(heap)]
      rest    == SubSeq(heap, 1, Len(heap) - 1)
  IN  IF rest # <<>>
      THEN [item |-> heap[1], heap |-> _siftup([rest EXCEPT ![1] = lastelt], 0)]
      ELSE [item |-> lastelt, heap |-> rest]

heappush(heap, item) == _siftdown(Append(heap, item), 0, Len(heap), item)

\* the while loop of build_huffman_tree
RECURSIVE MergeLoop(_)
MergeLoop(heap) ==
  IF Len(heap) > 1
  THEN LET l      == heappop(heap)
           r      == heappop(l.heap)
           merged == [Node(None, l.item.freq + r.item.freq) EXCEPT
                        !.left = <<l.item>>, !.right = <<r.item>>]
       IN  MergeLoop(heappush(r.heap, merged))
  ELSE heap

\* build_huffman_tree: `return heap[0]` raises IndexError on an empty heap
build_huffman_tree(freq_table) ==
  LET heap == heapify([i \in DOMAIN freq_table |-> Node(freq_table[i][1], freq_table[i][2])])
  IN  IF Len(heap) = 1
      THEN [raised |-> FALSE,
            root |-> <<[Node(None, heap[1].freq) EXCEPT !.left = <<heap[1]>>]>>]
      ELSE LET h == MergeLoop(heap)
           IN  IF h = <<>> THEN [raised |-> TRUE, root |-> <<>>]
               ELSE [raised |-> FALSE, root |-> <<h[1]>>]

NoCodes == [ch \in {} |-> <<>>]

\* generate_codes._walk: the dict char -> code; a later assignment replaces an earlier one
RECURSIVE _walk(_, _)
_walk(ref, code) ==
  IF ref = <<>> THEN NoCodes
  ELSE LET node == ref[1]
       IN  IF node.char # None THEN (node.char :> code)
           ELSE _walk(node.right, Append(code, 1)) @@ _walk(node.left, Append(code, 0))

generate_codes(root) == _walk(root, <<>>)

RECURSIVE Join(_)
Join(ss) == IF ss = <<>> THEN <<>> ELSE Head(ss) \o Join(Tail(ss))       \* ''.join

RECURSIVE ToInt(_)
ToInt(bits) ==                                                           \* int(byte, 2)
  IF bits = <<>> THEN 0 ELSE 2 * ToInt(SubSeq(bits, 1, Len(bits) - 1)) + bits[Len(bits)]

RECURSIVE ToBits(_, _)
ToBits(b, width) ==                                                      \* f"{b:08b}"
  IF width = 0 THEN <<>> ELSE Append(ToBits(b \div 2, width - 1), b % 2)

Zeros(n) == [i \in 1..n |-> 0]

\* compress: (data, codes, padding), or the exception of build_huffman_tree
compress(text) ==
  LET root == build_huffman_tree(build_frequency_table(text))
  IN  IF root.raised THEN [raised |-> TRUE, data |-> <<>>, codes |-> NoCodes, padding |-> 0]
      ELSE LET codes   == generate_codes(root.root)
               encoded == Join([i \in DOMAIN text |-> codes[text[i]]])
               padding == (8 - (Len(encoded) % 8)) % 8
               padded  == encoded \o Zeros(padding)
           IN  [raised |-> FALSE,
                data |-> [i \in 1..(Len(padded) \div 8) |-> ToInt(SubSeq(padded, 8 * i - 7, 8 * i))],
                codes |-> codes, padding |-> padding]

\* the for loop of decompress over bit_str
RECURSIVE DecodeLoop(_, _, _, _, _)
DecodeLoop(bit_str, i, curr, rev, result) ==
  IF i > Len(bit_str) THEN result
  ELSE LET c == Append(curr, bit_str[i])
       IN  IF c \in DOMAIN rev
           THEN DecodeLoop(bit_str, i + 1, <<>>, rev, Append(result, rev[c]))
           ELSE DecodeLoop(bit_str, i + 1, c, rev, result)

decompress(data_bytes, codes, padding) ==
  LET rev     == [code \in {codes[ch] : ch \in DOMAIN codes} |->
                    CHOOSE ch \in DOMAIN codes : codes[ch] = code]
      bits    == Join([i \in DOMAIN data_bytes |-> ToBits(data_bytes[i], 8)])
      bit_str == IF padding # 0 THEN SubSeq(bits, 1, Len(bits) - padding) ELSE bits
  IN  DecodeLoop(bit_str, 1, <<>>, rev, <<>>)

\* the codec's caller: nothing compressed yet
Idle == [pc |-> "idle", text |-> <<>>, raised |-> FALSE, data |-> <<>>, codes |-> NoCodes,
         padding |-> 0, result |-> <<>>]

\* ======================================================== state
VARIABLES
  rbt,    \* the RedBlackTree of the session
  bpt,    \* the BPlusTree of the session
  file,   \* index.dat as the next load_index finds it.  The loop never reads the
          \* file and choice 6 rewrites it from scratch, so its content is carried
          \* only from save_index to the load_index of the next session.
  pc,     \* "boot": main not started; "menu": waiting for a choice;
          \* "printed": the choice was carried out; "exited": after choice 6
  out,    \* what the last choice returned to the loop
  log,    \* the events the last step sent to the logger
  hist,   \* string key -> value of its latest insert into the indexes held, recorded
          \* while these hold string keys only (None: no such insert)
  codec   \* a caller of the codec: the text it compresses, what compress returned
          \* to it and what decompress made of that

vars == <<rbt, bpt, file, pc, out, log, hist, codec>>

\* the locals of a loop round (name, path, r, b, files), what choice 4 printed
\* for the two indexes, the nodes constructed,
\* and (in the runs on the red-black tree alone) the branches that the passes
\* of the fix-up loop of the insert took
NoOut == [cmd |-> "none", name |-> None, path |-> None, r |-> None, b |-> None,
          files |-> <<>>, allocs |-> <<0, 0>>, passes |-> <<>>, printed |-> <<>>]

NoHist == [k \in Keys |-> None]

\* a key that is not a string is stored: only as the root, in an index that was empty
HoldsBadKey == rbt.root # NULL_LEAF /\ rbt.nodes[rbt.root].key = BadKey

Init ==
  /\ rbt = RedBlackTree
  /\ bpt \in {BPlusTree(o) : o \in Orders}
  /\ file = NoFile
  /\ pc = "boot"
  /\ out = NoOut
  /\ log = <<>>
  /\ hist = NoHist
  /\ codec = Idle

\* main, line 58: rbt, bpt = load_index()
Start ==
  /\ pc \in {"boot", "exited"}
  /\ LET l == load_index(file, bpt.order)
     IN  /\ rbt' = l.rbt
         /\ bpt' = l.bpt
         /\ log' = l.log
         /\ hist' = IF l.fresh THEN NoHist ELSE hist
  /\ file' = NoFile
  /\ pc' = "menu"
  /\ out' = NoOut
  /\ UNCHANGED codec

\* main, line 62: the next round of the loop
Menu ==
  /\ pc = "printed"
  /\ pc' = "menu"
  /\ out' = NoOut
  /\ log' = <<>>
  /\ UNCHANGED <<rbt, bpt, file, hist, codec>>

\* the insert reaches the red-black tree only
Insert_rbOnly(k, v) ==
  /\ pc = "menu"
  /\ LET ri == RBInsert(rbt, k, v)
         bi == BPInsert(bpt, k, v)
     IN  /\ rbt' = ri.t
         /\ bpt' = bpt
         /\ log' = <<ri.log, bi.log>>
         /\ out' = [NoOut EXCEPT !.cmd = "insert", !.name = k, !.path = v,
                                 !.allocs = <<ri.allocs, bi.allocs>>]
  /\ hist' = IF k \in Keys /\ ~HoldsBadKey THEN [hist EXCEPT ![k] = v] ELSE hist
  /\ pc' = "printed"
  /\ UNCHANGED <<file, codec>>

\* choice 3: the same insert on both indexes
Insert(k, v) ==
  /\ pc = "menu"
  /\ LET ri == RBInsert(rbt, k, v)
         bi == BPInsert(bpt, k, v)
     IN  /\ rbt' = ri.t
         /\ bpt' = bi.t
         /\ log' = <<ri.log, bi.log>>
         /\ out' = [NoOut EXCEPT !.cmd = "insert", !.name = k, !.path = v,
                                 !.allocs = <<ri.allocs, bi.allocs>>]
  /\ hist' = IF k \in Keys /\ ~HoldsBadKey THEN [hist EXCEPT ![k] = v] ELSE hist
  /\ pc' = "printed"
  /\ UNCHANGED <<file, codec>>

\* `'Found: ' + r if r else 'Not found.'`: None and the empty string are false
Shown(r) == IF r # None /\ r # EmptyPath THEN "Found" ELSE "Not found."

\* choice 4
Search(k) ==
  /\ pc = "menu"
  /\ LET r == RBSearch(rbt, k)
         b == BPSearch(bpt, k)
     IN  /\ out' = [NoOut EXCEPT !.cmd = "search", !.name = k, !.r = r.ret, !.b = b.ret,
                                 !.printed = <<Shown(r.ret), Shown(b.ret)>>]
         /\ log' = <<r.log, b.log>>
  /\ pc' = "printed"
  /\ UNCHANGED <<rbt, bpt, file, hist, codec>>

\* list_all hands out the leaf chain and unlinks it behind itself
ListAll_consuming ==
  /\ pc = "menu"
  /\ LET l == list_all(bpt)
     IN  /\ out' = [NoOut EXCEPT !.cmd = "list", !.files = l.ret]
         /\ log' = <<l.log>>
  /\ bpt' = [bpt EXCEPT !.nodes[LeftmostLeaf(bpt.nodes, bpt.root)].next = None]
  /\ pc' = "printed"
  /\ UNCHANGED <<rbt, file, hist, codec>>

\* choice 5
ListAll ==
  /\ pc = "menu"
  /\ LET l == list_all(bpt)
     IN  /\ out' = [NoOut EXCEPT !.cmd = "list", !.files = l.ret]
         /\ log' = <<l.log>>
  /\ pc' = "printed"
  /\ UNCHANGED <<rbt, bpt, file, hist, codec>>

\* choice 6: save_index, then the process ends
Exit ==
  /\ pc = "menu"
  /\ LET s == save_index(rbt, bpt)
     IN  /\ file' = s.file
         /\ log' = <<s.log>>
  /\ pc' = "exited"
  /\ out' = NoOut
  /\ UNCHANGED <<rbt, bpt, hist, codec>>

Next ==
  \/ Start
  \/ Menu
  \/ \E k \in AllKeys, v \in Vals : Insert(k, v)
  \/ \E k \in AllKeys : Search(k)
  \/ ListAll
  \/ Exit

Spec == Init /\ [][Next]_vars

\* ------------------------------------------------ the codec on its own
\* compress(text) for any text
Compress(text) ==
  /\ codec.pc = "idle"
  /\ LET c == compress(text)
     IN  codec' = [pc |-> IF c.raised THEN "raised" ELSE "compressed", text |-> text,
                   raised |-> c.raised, data |-> c.data, codes |-> c.codes,
                   padding |-> c.padding, result |-> <<>>]
  /\ UNCHANGED <<rbt, bpt, file, pc, out, log, hist>>

\* decompress applied to what compress returned
Decompress ==
  /\ codec.pc = "compressed"
  /\ codec' = [codec EXCEPT !.pc = "decompressed",
                            !.result = decompress(codec.data, codec.codes, codec.padding)]
  /\ UNCHANGED <<rbt, bpt, file, pc, out, log, hist>>

HuffNext ==
  \/ \E text \in Texts : Compress(text)
  \/ Decompress

HuffSpec == Init /\ [][HuffNext]_vars

\* ------------------------------------------------ one index on its own
\* The classes used without the command loop: only insert is called, on one
\* index, with one value, so that the trees grow deeper than those of Spec.
DeepKeys == 1..MaxDeepKey

\* the value that goes with key k in these runs
DeepVal(k) == k % (MaxVal + 1)

\* bpt.insert(k, v)
BPlusInsert(k) ==
  /\ pc = "boot"
  /\ bpt' = BPInsert(bpt, k, DeepVal(k)).t
  /\ UNCHANGED <<rbt, file, pc, out, log, hist, codec>>

BPlusNext == \E k \in DeepKeys : BPlusInsert(k)

BPlusSpec == Init /\ [][BPlusNext]_vars

\* the branches taken by the fix-up loop of rbt.insert(k, .), none if k is stored
FixBranches(k) ==
  LET d  == RBDescend(rbt.nodes, k, rbt.root, None)
      tr == IF d.kind = "attach" THEN FixTrace(RBAttach(rbt, k, None, d.at), RBId(k)) ELSE <<>>
  IN  [i \in DOMAIN tr |-> <<tr[i].pass.kind, tr[i].pass.rotations>>]

\* rbt.insert(k, v)
RedBlackInsert(k) ==
  /\ pc = "boot"
  /\ rbt' = RBInsert(rbt, k, DeepVal(k)).t
  /\ out' = [NoOut EXCEPT !.cmd = "insert", !.passes = FixBranches(k)]
  /\ UNCHANGED <<bpt, file, pc, log, hist, codec>>

RedBlackNext == \E k \in DeepKeys : RedBlackInsert(k)

RedBlackSpec == Init /\ [][RedBlackNext]_vars

\* ======================================================== properties
StoredKeys == {k \in Keys : hist[k] # None}

\* the indexes hold string keys only (the data model of the indexes)
StringKeysOnly == ~HoldsBadKey

RECURSIVE InOrder(_, _)
InOrder(n, x) ==
  IF x = NULL_LEAF THEN <<>> ELSE InOrder(n, n[x].left) \o <<n[x].key>> \o InOrder(n, n[x].right)

\* number of black nodes from x down to the terminal marker, -1 when two paths differ
RECURSIVE BlackHeight(_, _)
BlackHeight(n, x) ==
  IF x = NULL_LEAF THEN 0
  ELSE LET l == BlackHeight(n, n[x].left)
           r == BlackHeight(n, n[x].right)
       IN  IF l = -1 \/ r = -1 \/ l # r THEN -1
           ELSE l + (IF n[x].color = "black" THEN 1 ELSE 0)

RBReal == DOMAIN rbt.nodes \ {NULL_LEAF}

BPLeaves == {id \in DOMAIN bpt.nodes : bpt.nodes[id].leaf}

BPInternals == {id \in DOMAIN bpt.nodes : ~bpt.nodes[id].leaf}

InsertedBoth ==
  /\ pc = "printed" /\ out.cmd = "insert"
  /\ log = <<Info("RB-Tree: inserted"), Info("B+ Tree: inserted")>>

UpdatedBoth ==
  /\ pc = "printed" /\ out.cmd = "insert"
  /\ log = <<Info("RB-Tree: updated"), Info("B+ Tree: updated")>>

\* C1: after any sequence of inserts of string keys into the empty indexes,
\* search(k) of the red-black tree and of the B+ tree return, for every
\* inserted key k, the value of the latest insert(k, v).
C1_SearchReturnsLatest ==
  StringKeysOnly =>
    \A k \in StoredKeys : /\ RBSearch(rbt, k).ret = hist[k]
                          /\ BPSearch(bpt, k).ret = hist[k]

\* every key is stored, one of them was just overwritten, the B+ root is internal
C1_Witness ==
  /\ StringKeysOnly /\ StoredKeys = Keys /\ UpdatedBoth
  /\ ~bpt.nodes[bpt.root].leaf
  /\ \E k \in Keys : hist[k] = MaxVal /\ out.name = k

\* C2: after every insert the root of the red-black tree is black, no red
\* node has a red parent (nor a red child), and every path from the root to
\* the terminal marker passes through the same number of black nodes.
C2_RedBlackInvariants ==
  /\ rbt.nodes[rbt.root].color = "black"
  /\ \A x \in RBReal :
       rbt.nodes[x].color = "red" =>
         /\ rbt.nodes[x].parent # None => rbt.nodes[rbt.nodes[x].parent].color = "black"
         /\ rbt.nodes[rbt.nodes[x].left].color = "black"
         /\ rbt.nodes[rbt.nodes[x].right].color = "black"
  /\ BlackHeight(rbt.nodes, rbt.root) # -1

\* an insert has attached the last key; the tree holds red nodes and black inner nodes
C2_Witness ==
  /\ InsertedBoth /\ Cardinality(RBReal) = MaxKey
  /\ \E x \in RBReal : rbt.nodes[x].color = "red"
  /\ \E x \in RBReal : x # rbt.root /\ rbt.nodes[x].color = "black"
                       /\ rbt.nodes[x].left # NULL_LEAF

\* C3: after every B+ insert (order >= 3) every leaf other than a root leaf
\* holds between 1 and order-1 keys and every internal node other than the
\* root holds between ceil(order/2)-1 and order-1 keys.
C3_NodeOccupancy ==
  \A id \in DOMAIN bpt.nodes \ {bpt.root} :
    LET len == Len(bpt.nodes[id].keys)
    IN  IF bpt.nodes[id].leaf
        THEN 1 <= len /\ len <= bpt.order - 1
        ELSE (bpt.order + 1) \div 2 - 1 <= len /\ len <= bpt.order - 1

\* an insert has split an internal node: an internal node below the root is at its minimum
C3_Witness ==
  /\ InsertedBoth
  /\ \E id \in BPInternals \ {bpt.root} :
       Len(bpt.nodes[id].keys) = (bpt.order + 1) \div 2 - 1
  /\ \E id \in BPLeaves : Len(bpt.nodes[id].keys) = bpt.order - 1

\* C4: list_all returns the entries in strictly ascending key order, exactly
\* one entry per inserted key with its latest value, and its key sequence is
\* the in-order key sequence of the red-black tree fed with the same inserts.
C4_ListAllSorted ==
  LET es == list_all(bpt).ret
  IN  /\ \A i, j \in DOMAIN es : i < j => es[i][1] < es[j][1]
      /\ StringKeysOnly => {es[i] : i \in DOMAIN es} = {<<k, hist[k]>> : k \in StoredKeys}
      /\ [i \in DOMAIN es |-> es[i][1]] = InOrder(rbt.nodes, rbt.root)

\* list_all has run on a chain of at least three leaves holding every key
C4_Witness ==
  /\ pc = "printed" /\ out.cmd = "list" /\ Len(out.files) = MaxKey
  /\ Cardinality(BPLeaves) >= 3
  /\ StringKeysOnly

\* ---------------------------------------------------------------- C5
RBHolds(k) == \E x \in RBReal : rbt.nodes[x].key = k

BPHolds(k) == \E id \in BPLeaves : k \in Range(bpt.nodes[id].keys)

\* the B+ tree with every leaf value blanked: nodes, links, leaf keys, separators
BPShape(t) == [id \in DOMAIN t.nodes |-> [t.nodes[id] EXCEPT !.values = <<>>]]

\* insert(k, v) on indexes that hold k leaves everything but k's value as it was
OverwritesOnly(k, v) ==
  /\ rbt' = [rbt EXCEPT !.nodes[RBId(k)].value = v]
  /\ BPShape(bpt') = BPShape(bpt) /\ bpt'.root = bpt.root
  /\ Len(list_all(bpt').ret) = Len(list_all(bpt).ret)
  /\ \A j \in AllKeys : BPSearch(bpt', j).ret = IF j = k THEN v ELSE BPSearch(bpt, j).ret
  /\ RBInsert(rbt', k, v).t = rbt' /\ BPInsert(bpt', k, v).t = bpt'

\* C5: insert(k, v2) on an index that already holds k only overwrites k's
\* value: entry count and list_all length unchanged, tree structure unchanged,
\* a repeated identical insert changes nothing, and no node is allocated, in
\* the red-black tree and in the B+ tree.
C5_UpdateOnlyOverwrites ==
  [][\A k \in {out'.name}, v \in {out'.path} :
       (out'.cmd = "insert" /\ Insert(k, v) /\ RBHolds(k) /\ BPHolds(k)) =>
         (OverwritesOnly(k, v) /\ out'.allocs = <<0, 0>>)]_vars

\* ---------------------------------------------------------------- C6
RECURSIVE InsertAll(_, _, _)
InsertAll(t, ks, vs) ==
  IF ks = <<>> THEN t
  ELSE InsertAll(BPInsert(t, Head(ks), Head(vs)).t, Tail(ks), Tail(vs))

ScenarioKeys == <<1, 2, 3, 4, 5>>      \* A, B, C, D, E

\* the B+ tree is the one that inserting A..E in this order into an empty tree of order 4 builds
AfterScenario ==
  /\ bpt.order = 4 /\ StringKeysOnly /\ StoredKeys = Range(ScenarioKeys)
  /\ bpt = InsertAll(BPlusTree(4), ScenarioKeys, [i \in 1..5 |-> hist[ScenarioKeys[i]]])

\* C6: order 4, keys A..E inserted in this order into an empty B+ tree: one
\* leaf split has happened (that of the root leaf: two leaves under an internal
\* root), list_all returns A, B, C, D, E, and every root-to-leaf path has 2 nodes.
C6_ScenarioABCDE ==
  AfterScenario =>
    /\ Cardinality(BPLeaves) = 2 /\ Cardinality(BPInternals) = 1
    /\ bpt.nodes[bpt.root].children = <<BPId(0, None), BPId(0, bpt.nodes[bpt.root].keys[1])>>
    /\ [i \in DOMAIN list_all(bpt).ret |-> list_all(bpt).ret[i][1]] = ScenarioKeys
    /\ \A id \in BPLeaves : bpt.nodes[id].parent = bpt.root
    /\ Level(bpt.nodes, bpt.root) + 1 = 2

\* E has just been inserted
C6_Witness ==
  /\ AfterScenario /\ InsertedBoth /\ out.name = 5
  /\ BPSearch(bpt, 5).ret # None

\* ---------------------------------------------------------------- C7
RBMiss == [ret |-> None, log |-> Info("RB-Tree: not found")]

BPMiss == [ret |-> None, log |-> Info("B+ Tree: not found")]

\* C7: search(k) returns None and logs no error for every (string) key that
\* was never inserted, in both indexes; on empty indexes for any key at all.
C7_MissIsNotAnError ==
  /\ StringKeysOnly =>
       \A k \in Keys \ StoredKeys : RBSearch(rbt, k) = RBMiss /\ BPSearch(bpt, k) = BPMiss
  /\ (rbt.root = NULL_LEAF /\ bpt.nodes[bpt.root].keys = <<>>) =>
       \A k \in AllKeys : RBSearch(rbt, k) = RBMiss /\ BPSearch(bpt, k) = BPMiss

\* a search has missed in indexes that hold all keys but one, below an internal B+ root
C7_Witness ==
  /\ pc = "printed" /\ out.cmd = "search" /\ out.r = None /\ out.b = None
  /\ log = <<RBMiss.log, BPMiss.log>>
  /\ StringKeysOnly /\ Cardinality(StoredKeys) = MaxKey - 1
  /\ ~bpt.nodes[bpt.root].leaf

\* ---------------------------------------------------------------- C8
\* C8: restoring the saved pair of indexes into a fresh session gives indexes
\* with the same search result for every key and the same list_all sequence as
\* the indexes that were saved.
C8_RoundTrip ==
  [][(pc = "exited" /\ Start) =>
       /\ \A k \in AllKeys : /\ RBSearch(rbt', k).ret = RBSearch(rbt, k).ret
                             /\ BPSearch(bpt', k).ret = BPSearch(bpt, k).ret
       /\ list_all(bpt').ret = list_all(bpt).ret]_vars

\* ---------------------------------------------------------------- C9, C10
\* the stored keys are of one type, so a key of the other type raises at the
\* first comparison: against the root's key, or against the first key of the
\* B+ root (== in the leaf scan of search never raises)
RBFaults(k) == rbt.root # NULL_LEAF /\ Unorderable(k, rbt.nodes[rbt.root].key)

BPInsertFaults(k) ==
  bpt.nodes[bpt.root].keys # <<>> /\ Unorderable(k, bpt.nodes[bpt.root].keys[1])

BPSearchFaults(k) == ~bpt.nodes[bpt.root].leaf /\ BPInsertFaults(k)

Level1(e) == e[1]

\* C9: a fault inside insert, search or list_all never reaches the caller:
\* the call returns to the loop (search with None), and an ERROR event is
\* logged exactly when the call faulted; a plain miss logs INFO only.
C9_FaultsAreLoggedNotRaised ==
  [][/\ \A k \in {out'.name} :
          (out'.cmd = "search" /\ Search(k)) =>
            /\ pc' = "printed" /\ out'.r # Raise /\ out'.b # Raise
            /\ IF RBFaults(k) THEN out'.r = None /\ log'[1] = Error("RB-Tree search error")
               ELSE Level1(log'[1]) = "INFO"
            /\ IF BPSearchFaults(k) THEN out'.b = None /\ log'[2] = Error("B+ Tree search error")
               ELSE Level1(log'[2]) = "INFO"
     /\ \A k \in {out'.name}, v \in {out'.path} :
          (out'.cmd = "insert" /\ Insert(k, v)) =>
            /\ pc' = "printed"
            /\ IF RBFaults(k) THEN log'[1] = Error("RB-Tree insert error")
               ELSE Level1(log'[1]) = "INFO"
            /\ IF BPInsertFaults(k) THEN log'[2] = Error("B+ Tree insert error")
               ELSE Level1(log'[2]) = "INFO"
     /\ ListAll => pc' = "printed" /\ log' = <<Info("B+ Tree: listed")>>]_vars

\* one search call: the red-black tree faulted, the B+ tree (a root leaf) merely missed
C9_Witness ==
  /\ pc = "printed" /\ out.cmd = "search" /\ out.r = None /\ out.b = None
  /\ log = <<Error("RB-Tree search error"), BPMiss.log>>
  /\ rbt.root # NULL_LEAF

\* C10: an insert that faults is a no-op in both indexes: the index is as it
\* was before the call, and so are all search results and list_all.
C10_FaultingInsertIsNoOp ==
  [][\A k \in {out'.name}, v \in {out'.path} :
       (out'.cmd = "insert" /\ Insert(k, v)) =>
         /\ (RBFaults(k) \/ log'[1] = Error("RB-Tree insert error")) => rbt' = rbt
         /\ (BPInsertFaults(k) \/ log'[2] = Error("B+ Tree insert error")) =>
              /\ bpt' = bpt
              /\ list_all(bpt').ret = list_all(bpt).ret]_vars

\* an insert has faulted in both indexes, which hold several keys
C10_Witness ==
  /\ pc = "printed" /\ out.cmd = "insert"
  /\ log = <<Error("RB-Tree insert error"), Error("B+ Tree insert error")>>
  /\ Cardinality(RBReal) >= 3 /\ Cardinality(BPLeaves) >= 2

\* ---------------------------------------------------------------- C11
\* the (key, value) pairs the red-black tree holds, and those of the B+ leaves
RBMap == {<<rbt.nodes[x].key, rbt.nodes[x].value>> : x \in RBReal}

BPMap == UNION {Range(Zip(bpt.nodes[id].keys, bpt.nodes[id].values)) : id \in BPLeaves}

\* C11: in every state of the command loop, from load_index on, the red-black
\* tree and the B+ tree hold the same key-to-value mapping; an insert command
\* has the same outcome in both, and a search command gets the same result
\* from both, for every key.
C11_SameMapping ==
  /\ RBMap = BPMap
  /\ \A k \in AllKeys : RBSearch(rbt, k).ret = BPSearch(bpt, k).ret
  /\ (pc = "printed" /\ out.cmd = "search") => out.r = out.b
  /\ (pc = "printed" /\ out.cmd = "insert") => log[1][1] = log[2][1]

\* a search command has found a key in both indexes, which hold at least four
\* keys under an internal B+ root
C11_Witness ==
  /\ pc = "printed" /\ out.cmd = "search" /\ out.r # None /\ out.b = out.r
  /\ Cardinality(RBMap) >= 4 /\ ~bpt.nodes[bpt.root].leaf
  /\ hist[out.name] = out.r

\* ---------------------------------------------------------------- C12
\* C12: for every text, the empty text and texts of one distinct character
\* included, compress(text) returns (data, codes, padding) and decompress
\* applied to them returns exactly text.
C12_CodecRoundTrip ==
  /\ codec.pc # "raised"
  /\ codec.pc = "decompressed" => codec.result = codec.text

\* ---------------------------------------------------------------- C13
\* the leaf that insert(k, .) descends to, and its keys and values with (k, v) put in
TargetLeaf(k) == _find_leaf(bpt.nodes, bpt.root, k)

Overfull(k, v) ==
  LET lf == bpt.nodes[TargetLeaf(k)]
      i  == Position(lf.keys, k, 0)
  IN  [keys |-> InsertAt(lf.keys, i, k), values |-> InsertAt(lf.values, i, v)]

\* insert(k, .) makes its leaf overflow: the leaf holds order - 1 keys, k is not one of them
SplitsLeaf(k) ==
  /\ ~BPInsertFaults(k) /\ ~BPHolds(k)
  /\ Len(bpt.nodes[TargetLeaf(k)].keys) = bpt.order - 1

\* the parent of a node has room for one more separator
ParentHasRoom(id) ==
  bpt.nodes[id].parent # None /\ Len(bpt.nodes[bpt.nodes[id].parent].keys) < bpt.order - 1

\* the step has split the leaf of k at index mid
LeafSplitAt(mid, k, v) ==
  LET leaf == TargetLeaf(k)
      full == Overfull(k, v)
      new  == bpt'.nodes[leaf].next
      n    == bpt'.nodes
  IN  /\ Len(full.keys) = bpt.order
      /\ n[leaf].keys = SubSeq(full.keys, 1, mid)
      /\ n[leaf].values = SubSeq(full.values, 1, mid)
      /\ new \in DOMAIN n \ DOMAIN bpt.nodes /\ n[new].leaf
      /\ n[new].keys = SubSeq(full.keys, mid + 1, bpt.order)
      /\ n[new].values = SubSeq(full.values, mid + 1, bpt.order)
      /\ n[new].next = bpt.nodes[leaf].next
      \* copy-up: the separator is still the new leaf's first key, and it routes to the new leaf
      /\ \E p \in DOMAIN n : \E i \in DOMAIN n[p].keys :
           /\ ~n[p].leaf /\ n[p].keys[i] = n[new].keys[1]
           /\ LeftmostLeaf(n, n[p].children[i + 1]) = new
           /\ ParentHasRoom(leaf) =>
                /\ p = bpt.nodes[leaf].parent /\ n[new].parent = p /\ n[leaf].parent = p
                /\ n[p].children[i] = leaf /\ n[p].children[i + 1] = new
                /\ bpt'.root = bpt.root
      /\ bpt.nodes[leaf].parent = None =>
           /\ bpt'.root \notin DOMAIN bpt.nodes
           /\ n[bpt'.root] = [BPlusInternal EXCEPT !.keys = <<n[new].keys[1]>>,
                                                   !.children = <<leaf, new>>]
           /\ n[leaf].parent = bpt'.root /\ n[new].parent = bpt'.root

\* C13 as written: a leaf that overflows (it holds order keys) is split at
\* mid = ceil((order+1)/2): the original leaf keeps [0, mid), a new leaf linked
\* right after it takes [mid, end), the new leaf's first key is copied into the
\* parent as its separator, and a split root leaf gets a new internal root.
C13_LeafSplitCeil ==
  [][\A k \in DeepKeys :
       (SplitsLeaf(k) /\ BPlusInsert(k)) =>
         LeafSplitAt((bpt.order + 2) \div 2, k, DeepVal(k))]_vars

\* C13, amended: the same with mid = floor((order+1)/2).
C13_LeafSplitFloor ==
  [][\A k \in DeepKeys :
       (SplitsLeaf(k) /\ BPlusInsert(k)) =>
         LeafSplitAt((bpt.order + 1) \div 2, k, DeepVal(k))]_vars

\* order 4: a leaf in the middle of the chain and the leaf after it hold two keys
\* each, as a split leaves them, under a parent that holds their separator
C13_Witness ==
  /\ bpt.order = 4 /\ Cardinality(BPLeaves) >= 4
  /\ \E id \in BPLeaves \ {LeftmostLeaf(bpt.nodes, bpt.root)} :
       LET nx == bpt.nodes[id].next
       IN  /\ nx # None /\ Len(bpt.nodes[id].keys) = 2 /\ Len(bpt.nodes[nx].keys) = 2
           /\ bpt.nodes[nx].parent = bpt.nodes[id].parent
           /\ bpt.nodes[nx].keys[1] \in Range(bpt.nodes[bpt.nodes[nx].parent].keys)

\* ---------------------------------------------------------------- C14
\* the keys stored in the leaves under a node
RECURSIVE SubtreeKeys(_, _)
SubtreeKeys(n, id) ==
  IF n[id].leaf THEN Range(n[id].keys)
  ELSE UNION {SubtreeKeys(n, n[id].children[i]) : i \in DOMAIN n[id].children}

\* key k may be stored under child i of an internal node: k < separator i
\* (if there is one) and k >= separator i-1 (if there is one)
Admits(nd, i, k) ==
  /\ i <= Len(nd.keys) => k < nd.keys[i]
  /\ i > 1 => k >= nd.keys[i - 1]

\* the leaves under a node that the separators above them allow to hold k
RECURSIVE AdmittingLeaves(_, _, _)
AdmittingLeaves(n, id, k) ==
  IF n[id].leaf THEN {id}
  ELSE UNION {AdmittingLeaves(n, n[id].children[i], k) :
                i \in {j \in DOMAIN n[id].children : Admits(n[id], j, k)}}

\* C14: after every insert each internal node of the B+ tree with k
\* separators has k+1 children, its separators are strictly ascending, every
\* key stored under child i is < separator i and >= separator i-1, and the
\* descent of search and insert reaches the only leaf that can hold the key.
C14_SeparatorsRoute ==
  /\ \A id \in BPInternals :
       LET nd == bpt.nodes[id]
       IN  /\ Len(nd.children) = Len(nd.keys) + 1
           /\ \A i, j \in DOMAIN nd.keys : i < j => nd.keys[i] < nd.keys[j]
           /\ \A i \in DOMAIN nd.children :
                \A k \in SubtreeKeys(bpt.nodes, nd.children[i]) : Admits(nd, i, k)
  /\ \A k \in DeepKeys :
       /\ AdmittingLeaves(bpt.nodes, bpt.root, k) = {_find_leaf(bpt.nodes, bpt.root, k)}
       /\ BPHolds(k) => k \in Range(bpt.nodes[_find_leaf(bpt.nodes, bpt.root, k)].keys)

\* a tree of three levels with an internal node of two separators below the
\* root: the descent to the stored key MaxDeepKey - 1 takes a middle child twice
C14_Witness ==
  /\ Level(bpt.nodes, bpt.root) = 2
  /\ \E id \in BPInternals \ {bpt.root} : Len(bpt.nodes[id].keys) = 2
  /\ BPHolds(MaxDeepKey - 1)
  /\ LET leaf == _find_leaf(bpt.nodes, bpt.root, MaxDeepKey - 1)
         p    == bpt.nodes[leaf].parent
     IN  /\ leaf \notin {bpt.nodes[p].children[1], bpt.nodes[p].children[Len(bpt.nodes[p].children)]}
         /\ bpt.nodes[leaf].next # None

\* ---------------------------------------------------------------- C15
\* the internal nodes that overflow when the node id is split: its parent if
\* it is full, then that one's parent if it is full, and so on
RECURSIVE Overflowing(_)
Overflowing(id) ==
  LET p == bpt.nodes[id].parent
  IN  IF p = None \/ Len(bpt.nodes[p].keys) < bpt.order - 1 THEN {}
      ELSE {p} \cup Overflowing(p)

RemoveAt(seq, i) == SubSeq(seq, 1, i - 1) \o SubSeq(seq, i + 1, Len(seq))

\* the nodes of a level from left to right
RECURSIVE LevelSeq(_, _, _)
LevelSeq(n, id, level) ==
  IF Level(n, id) = level THEN <<id>>
  ELSE Join([i \in DOMAIN n[id].children |-> LevelSeq(n, n[id].children[i], level)])

\* the node that follows l on its level (None after the last one)
RightNeighbour(n, root, l) ==
  LET row == LevelSeq(n, root, Level(n, l))
      i   == CHOOSE j \in DOMAIN row : row[j] = l
  IN  IF i < Len(row) THEN row[i + 1] ELSE None

RECURSIVE Under(_, _, _)
Under(n, id, x) ==
  x = id \/ \E i \in DOMAIN n[id].children : Under(n, n[id].children[i], x)

\* the separator between l and its right neighbour r: the key between the two
\* children that hold them, in the lowest node that holds both
RECURSIVE SeparatorBetween(_, _, _, _)
SeparatorBetween(n, id, l, r) ==
  LET i == CHOOSE j \in DOMAIN n[id].children : Under(n, n[id].children[j], l)
  IN  IF Under(n, n[id].children[i], r) THEN SeparatorBetween(n, n[id].children[i], l, r)
      ELSE n[id].keys[i]

\* the step has split the full internal node l, which received one separator
\* and child more, at index mid of its order keys
InternalSplitAt(l, mid) ==
  LET n == bpt'.nodes
      r == RightNeighbour(n, bpt'.root, l)
  IN  /\ r \in DOMAIN n \ DOMAIN bpt.nodes
      /\ LET sep   == SeparatorBetween(n, bpt'.root, l, r)
             keys  == n[l].keys \o <<sep>> \o n[r].keys
             chn   == n[l].children \o n[r].children
         IN  /\ Len(keys) = bpt.order /\ Len(chn) = bpt.order + 1
             /\ \E i \in DOMAIN keys : RemoveAt(keys, i) = bpt.nodes[l].keys
             /\ \E i \in DOMAIN chn : /\ RemoveAt(chn, i) = bpt.nodes[l].children
                                       /\ chn[i] \notin DOMAIN bpt.nodes
             /\ keys[mid + 1] = sep
             /\ sep \notin Range(n[l].keys) \cup Range(n[r].keys)
             /\ n[l].keys = SubSeq(keys, 1, mid) /\ n[l].children = SubSeq(chn, 1, mid + 1)
             /\ n[r].keys = SubSeq(keys, mid + 2, bpt.order)
             /\ n[r].children = SubSeq(chn, mid + 2, bpt.order + 1)
             /\ \A c \in Range(n[r].children) : n[c].parent = r
             /\ \A c \in Range(n[l].children) : n[c].parent = l
             /\ IF bpt.root = l
                THEN /\ bpt'.root \notin DOMAIN bpt.nodes
                     /\ n[bpt'.root] = [BPlusInternal EXCEPT !.keys = <<sep>>,
                                                             !.children = <<l, r>>]
                     /\ n[l].parent = bpt'.root /\ n[r].parent = bpt'.root
                ELSE \* the promoted key went into the parent (which may have split in turn)
                     /\ l \in Range(n[n[l].parent].children)
                     /\ r \in Range(n[n[r].parent].children)
                     /\ {n[l].parent, n[r].parent} \subseteq
                          {bpt.nodes[l].parent} \cup (DOMAIN n \ DOMAIN bpt.nodes)

\* C15: an internal node that overflows is split at mid = floor(len(keys)/2):
\* keys[mid] leaves the node and becomes a separator of the parent, the node
\* keeps keys [0, mid) and children [0, mid], a new right node takes the
\* rest, every child moved has the right node as parent, and a split root gets
\* a new root holding the promoted key and the two nodes.
C15_InternalSplit ==
  [][\A k \in DeepKeys :
       (SplitsLeaf(k) /\ BPlusInsert(k)) =>
         \A l \in Overflowing(TargetLeaf(k)) : InternalSplitAt(l, bpt.order \div 2)]_vars

\* a tree of three levels whose root holds two separators: an internal node
\* below the root was split and its middle key went into the root
C15_Witness ==
  /\ Level(bpt.nodes, bpt.root) = 2 /\ Len(bpt.nodes[bpt.root].keys) = 2
  /\ \A id \in BPInternals \ {bpt.root} : bpt.nodes[id].parent = bpt.root

\* ---------------------------------------------------------------- C16
\* the depths at which the leaves under a node lie, the node being at depth d
RECURSIVE LeafDepths(_, _, _)
LeafDepths(n, id, d) ==
  IF n[id].leaf THEN {d}
  ELSE UNION {LeafDepths(n, n[id].children[i], d + 1) : i \in DOMAIN n[id].children}

Balanced(t) == Cardinality(LeafDepths(t.nodes, t.root, 0)) = 1

Height(t) == Max(0, CHOOSE d \in LeafDepths(t.nodes, t.root, 0) :
                      \A e \in LeafDepths(t.nodes, t.root, 0) : e <= d)

\* insert(k, .) splits the root: its leaf is the root and overflows, or the
\* overflow of its leaf propagates through full nodes up to the root
SplitsRoot(k) ==
  /\ SplitsLeaf(k)
  /\ bpt.root \in {TargetLeaf(k)} \cup Overflowing(TargetLeaf(k))

\* C16: after every insert all leaves of the B+ tree are at the same depth;
\* one insert creates at most one new root, and the height grows by at most
\* one, exactly when the split propagation reaches and splits the root.
C16_BalancedGrowth ==
  [][\A k \in DeepKeys :
       (~BPHolds(k) /\ BPHolds(k)' /\ BPlusInsert(k)) =>
         LET roots == {id \in DOMAIN bpt'.nodes \ DOMAIN bpt.nodes : bpt'.nodes[id].parent = None}
         IN  /\ Balanced(bpt) /\ Balanced(bpt')
             /\ Cardinality(roots) <= 1
             /\ IF SplitsRoot(k)
                THEN /\ roots = {bpt'.root} /\ Height(bpt') = Height(bpt) + 1
                     /\ bpt'.nodes[bpt'.root].children[1] = bpt.root
                     /\ Len(bpt'.nodes[bpt'.root].children) = 2
                ELSE /\ roots = {} /\ bpt'.root = bpt.root /\ Height(bpt') = Height(bpt)]_vars

\* order 3: a root with one separator over a tree of four levels, as the split
\* of a root of two internal levels leaves it
C16_Witness ==
  /\ bpt.order = 3 /\ Height(bpt) = 3 /\ Balanced(bpt)
  /\ Len(bpt.nodes[bpt.root].keys) = 1
  /\ \A c \in Range(bpt.nodes[bpt.root].children) : Len(bpt.nodes[c].keys) = 1

\* ---------------------------------------------------------------- C17
\* number of parent links from x up to the root
RECURSIVE Depth(_, _)
Depth(n, x) == IF n[x].parent = None THEN 0 ELSE 1 + Depth(n, n[x].parent)

RECURSIVE Rotations(_)
Rotations(tr) == IF tr = <<>> THEN 0 ELSE Head(tr).pass.rotations + Rotations(Tail(tr))

\* C17: the fix-up loop of every insert terminates: a recolouring pass moves
\* k up to its grandparent (two levels nearer the root), a rotation pass is
\* the last one (the loop condition is false after it), and one insert
\* makes at most two rotations.
C17_FixupTerminates ==
  [][\A k \in DeepKeys :
       (~RBHolds(k) /\ RBHolds(k)' /\ RedBlackInsert(k)) =>
         LET d  == RBDescend(rbt.nodes, k, rbt.root, None)
             t1 == RBAttach(rbt, k, DeepVal(k), d.at)
             tr == FixTrace(t1, RBId(k))
         IN  /\ \A i \in DOMAIN tr :
                  LET n == tr[i].t.nodes
                      p == tr[i].pass
                  IN  IF p.kind = "recolour"
                      THEN /\ p.k = n[n[tr[i].k].parent].parent /\ p.rotations = 0
                           /\ Depth(p.t.nodes, p.k) = Depth(n, tr[i].k) - 2
                      ELSE /\ i = Len(tr) /\ ~FixGuard(p.t, p.k)
                           /\ p.rotations \in {1, 2}
             /\ Len(tr) <= Depth(t1.nodes, RBId(k)) \div 2 + 1
             /\ Rotations(tr) <= 2
             /\ rbt'.nodes[rbt'.root].parent = None]_vars

\* an insert whose fix-up recoloured once, moving up two levels, and then
\* ended with a double rotation
C17_Witness ==
  /\ out.cmd = "insert"
  /\ out.passes = <<<<"recolour", 0>>, <<"rotate", 2>>>>

\* ---------------------------------------------------------------- C18
Ascending(seq) == \A i, j \in DOMAIN seq : i < j => seq[i] < seq[j]

\* seq (ascending) with k put in at its place
WithKey(seq, k) ==
  LET Below(x) == x < k
      Above(x) == x > k
  IN  SelectSeq(seq, Below) \o <<k>> \o SelectSeq(seq, Above)

\* the parent link of every node but the root points at the node whose left
\* or right link points at it, and the root has no parent
ParentLinks(t) ==
  \A x \in DOMAIN t.nodes \ {NULL_LEAF} :
    LET p == t.nodes[x].parent
    IN  /\ IF x = t.root THEN p = None
           ELSE p \in DOMAIN t.nodes \ {NULL_LEAF} /\ x \in {t.nodes[p].left, t.nodes[p].right}
        /\ \A c \in {t.nodes[x].left, t.nodes[x].right} \ {NULL_LEAF} : t.nodes[c].parent = x

\* the terminal marker as __init__ made it
MarkerIntact(t) == t.nodes[NULL_LEAF] = RedBlackTree.nodes[NULL_LEAF]

SearchTree(t) ==
  /\ Ascending(InOrder(t.nodes, t.root))
  /\ Len(InOrder(t.nodes, t.root)) = Cardinality(DOMAIN t.nodes \ {NULL_LEAF})
  /\ ParentLinks(t)
  /\ MarkerIntact(t)

\* C18: after every insert the red-black tree is a binary search tree holding
\* exactly the inserted keys; every rotation of the fix-up keeps the in-order
\* key sequence and leaves parent links that agree with the child links; the
\* root has no parent, and the terminal marker is as it was made (black, no
\* key, no value, no parent).
C18_SearchTreeKept ==
  [][\A k \in DeepKeys :
       (~RBHolds(k) /\ RBHolds(k)' /\ RedBlackInsert(k)) =>
         LET t1   == RBAttach(rbt, k, DeepVal(k), RBDescend(rbt.nodes, k, rbt.root, None).at)
             tr   == FixTrace(t1, RBId(k))
             keys == WithKey(InOrder(rbt.nodes, rbt.root), k)
         IN  /\ SearchTree(rbt')
             /\ InOrder(rbt'.nodes, rbt'.root) = keys
             /\ \A i \in DOMAIN tr :
                  LET p == tr[i].pass
                  IN  /\ InOrder(p.first.nodes, p.first.root) = keys
                      /\ InOrder(p.t.nodes, p.t.root) = keys
                      /\ ParentLinks(p.first) /\ ParentLinks(p.t)
                      /\ MarkerIntact(p.first) /\ MarkerIntact(p.t)]_vars

\* a tree of all the keys, the last of them put in with a single rotation;
\* some node has the terminal marker as its left child and a node as its right
C18_Witness ==
  /\ out.cmd = "insert" /\ out.passes = <<<<"rotate", 1>>>>
  /\ Cardinality(RBReal) = MaxDeepKey
  /\ \E x \in RBReal : rbt.nodes[x].left = NULL_LEAF /\ rbt.nodes[x].right # NULL_LEAF

\* ---------------------------------------------------------------- C19
\* C19: choice 4 prints 'Found' for an index exactly when the key searched
\* is stored in that index, and 'Not found.' only when it is not, whatever the
\* key and the stored value (the empty path included).
C19_FoundIffPresent ==
  (pc = "printed" /\ out.cmd = "search") =>
    /\ out.printed[1] = "Found" <=> RBHolds(out.name)
    /\ out.printed[2] = "Found" <=> BPHolds(out.name)

\* ---------------------------------------------------------------- C20
\* following next from the leaf `node` ends at None within `links` links
RECURSIVE ChainEnds(_, _, _)
ChainEnds(n, node, links) ==
  IF node = None THEN TRUE
  ELSE IF links = 0 THEN FALSE
  ELSE ChainEnds(n, n[node].next, links - 1)

\* the leaf chain of t from the leftmost leaf is finite: it ends after as many
\* links as there are leaves
Finite(t) ==
  ChainEnds(t.nodes, LeftmostLeaf(t.nodes, t.root),
            Cardinality({id \in DOMAIN t.nodes : t.nodes[id].leaf}))

\* C20: a round of the loop that runs search (choice 4) or list_all (choice
\* 5) changes no node, key, value, link or colour of either index; list_all
\* terminates with a finite list (the leaf chain ends), and as long as nothing
\* is inserted a further call of list_all or search returns what the last did.
C20_ReadOnly ==
  [][/\ Finite(bpt')
     /\ (pc = "menu" /\ out'.cmd \in {"search", "list"}) => rbt' = rbt /\ bpt' = bpt
     /\ (pc = "menu" /\ out'.cmd = "list") =>
          /\ out'.files = list_all(bpt).ret /\ list_all(bpt').ret = out'.files
          /\ Len(out'.files) <= MaxKey + 1
     /\ (pc = "menu" /\ out'.cmd = "search") =>
          /\ RBSearch(rbt', out'.name).ret = out'.r
          /\ BPSearch(bpt', out'.name).ret = out'.b
     /\ (pc \in {"menu", "printed"} /\ out'.cmd # "insert") =>
          list_all(bpt').ret = list_all(bpt).ret]_vars

\* list_all has returned at least four entries from the leaves of a tree of three levels
C20_Witness ==
  /\ pc = "printed" /\ out.cmd = "list" /\ Len(out.files) >= 4
  /\ Level(bpt.nodes, bpt.root) = 2
  /\ out.files = list_all(bpt).ret

\* ---------------------------------------------------------------- C21
\* the nodes listed as children of internal node id, in order
ChildrenOf(id) == bpt.nodes[id].children

\* the internal nodes that an internal split made: every one but the leftmost
\* child of its parent
SplitOffInternals ==
  {id \in BPInternals : /\ id # bpt.root
                        /\ bpt.nodes[id].parent \in BPInternals
                        /\ ChildrenOf(bpt.nodes[id].parent)[1] # id}

\* C21: after every BPlusTree.insert every child listed in an internal node
\* has its parent back-link equal to that node, and the root's parent is
\* None; this includes the leaves a leaf split made and the children an
\* internal split moved (every state of the run but the first is the state
\* after an insert)
C21_ParentBackLinks ==
  /\ bpt.nodes[bpt.root].parent = None
  /\ \A id \in BPInternals :
       \A i \in DOMAIN ChildrenOf(id) :
         /\ ChildrenOf(id)[i] \in DOMAIN bpt.nodes
         /\ bpt.nodes[ChildrenOf(id)[i]].parent = id

\* a tree of three levels whose root has three children or more, so that an
\* internal node below the root was split after the root split; a node that
\* an internal split made holds two leaves or more, all with their back-link
\* on it
C21_Witness ==
  /\ Level(bpt.nodes, bpt.root) = 2
  /\ Len(ChildrenOf(bpt.root)) >= 3
  /\ \E id \in SplitOffInternals :
       /\ Len(ChildrenOf(id)) >= 2
       /\ \A i \in DOMAIN ChildrenOf(id) :
            /\ bpt.nodes[ChildrenOf(id)[i]].leaf
            /\ bpt.nodes[ChildrenOf(id)[i]].parent = id

====
